---- MODULE Spec2Model ----
(***************************************************************************)
(* Model of the PrinterManager of sticker-printer (src/modules/printer.js) *)
(* : the Bluetooth session (connect / disconnect), the chunked transport   *)
(* (sendData), the raster encoder (canvasToBitmap) and the command framer  *)
(* (printBitmap / print).  Each action is one run of the code between two  *)
(* suspension points (await) of the single-threaded event loop.            *)
(***************************************************************************)
EXTENDS Integers, Sequences, FiniteSets, TLC

(* ------------------------------ bounds --------------------------------- *)
\* canvases printed have 0..MaxRows rows
MaxRows == 17
\* sendData is called directly with k*MTU_SIZE + d bytes, k in 0..MaxFull
MaxFull == 2
\* getPrimaryServices returns at most MaxServices services
MaxServices == 2
MaxHeight == 3

(* ------------------------- program constants --------------------------- *)
WIDTH == 384
BYTES_PER_LINE == 48
MTU_SIZE == 150
LINES_PER_CHUNK == 8
ESC == 27
GS == 29

WAKE_PRINTER == <<26, 4, 90>>
SET_DENSITY == <<26, 9, 12>>
SET_LABEL_GAP == <<26, 7, 1, 0, 0>>
SET_PRINT_SPEED == <<31, 17, 2, 4>>

\* the values of null fields
NoDevice == "null"
NoChar == "null"

Min(a, b) == IF a < b THEN a ELSE b

RECURSIVE Flatten(_)
Flatten(ss) == IF ss = <<>> THEN <<>> ELSE Head(ss) \o Flatten(Tail(ss))

(* ------------------------- raster encoder ------------------------------ *)
\* The colour of pixel (px, y) of the picture pat.
Colour(pat, px, y) ==
  CASE pat = "black" -> <<0, 0, 0>>
    [] pat = "white" -> <<255, 255, 255>>
    [] pat = "grey" -> <<128, 128, 128>>
    [] OTHER -> IF px <= 9 * y THEN <<0, 0, 0>> ELSE <<255, 255, 255>>

\* The RGBA pixel (px, y) of a canvas, as getImageData returns it.  A canvas
\* is described by its size, the picture drawn on it, the alpha of its pixels
\* and what is drawn at the columns from WIDTH on (the same picture, or black).
Pixel(canvas, px, y) ==
  LET c == IF px >= WIDTH /\ canvas.tail # "pat"
           THEN Colour(canvas.tail, px, y) ELSE Colour(canvas.pat, px, y)
  IN <<c[1], c[2], c[3], canvas.alpha>>

\* The colours for which the double-precision value of
\* r * 0.299 + g * 0.587 + b * 0.114 (products rounded, summed left to right)
\* differs in its comparison with 128 from the exact value: the exact sum is
\* 128, the computed one is 127.99999999999999.  For every other colour the
\* two comparisons agree.
RoundedBelow ==
  {
   <<8, 200, 72>>, <<12, 190, 113>>, <<19, 201, 38>>, <<23, 191, 79>>,
   <<24, 160, 236>>, <<34, 192, 45>>, <<38, 182, 86>>, <<42, 172, 127>>,
   <<49, 183, 52>>, <<53, 173, 93>>, <<57, 163, 134>>, <<64, 174, 59>>,
   <<72, 154, 141>>, <<75, 175, 25>>, <<79, 165, 66>>, <<87, 145, 148>>,
   <<90, 166, 32>>, <<94, 156, 73>>, <<98, 146, 114>>, <<102, 136, 155>>,
   <<105, 157, 39>>, <<113, 137, 121>>, <<116, 158, 5>>, <<117, 127, 162>>,
   <<120, 148, 46>>, <<128, 128, 128>>, <<131, 149, 12>>, <<132, 118, 169>>,
   <<135, 139, 53>>, <<143, 119, 135>>, <<146, 140, 19>>, <<154, 120, 101>>,
   <<158, 110, 142>>, <<161, 131, 26>>, <<169, 111, 108>>, <<176, 122, 33>>,
   <<177, 91, 190>>, <<184, 102, 115>>, <<195, 103, 81>>, <<199, 93, 122>>,
   <<202, 114, 6>>, <<210, 94, 88>>, <<225, 85, 95>>, <<240, 76, 102>>,
   <<251, 77, 68>>, <<255, 67, 109>>
  }

\* mutant: only an opaque pixel takes ink
DarkBlended(p) ==
  /\ p[4] = 255
  /\ \/ 299 * p[1] + 587 * p[2] + 114 * p[3] < 128000
     \/ <<p[1], p[2], p[3]>> \in RoundedBelow

\* brightness < 128 with brightness = r * 0.299 + g * 0.587 + b * 0.114 as the
\* code computes it, in double precision: the exact comparison, and the
\* colours on which rounding decides
Dark(p) ==
  \/ 299 * p[1] + 587 * p[2] + 114 * p[3] < 128000
  \/ <<p[1], p[2], p[3]>> \in RoundedBelow

\* 1 << (7 - bit)
BitValue(bit) == 2 ^ (7 - bit)

\* the contribution of one bit of byte column x of row y
BitOf(canvas, x, y, bit) ==
  LET px == x * 8 + bit
      idx == (y * canvas.width + px) * 4
      len == canvas.width * canvas.height * 4
  IN IF px < canvas.width /\ idx + 3 < len /\ Dark(Pixel(canvas, px, y))
     THEN BitValue(bit) ELSE 0

RECURSIVE PackByte(_, _, _, _)
PackByte(canvas, x, y, bit) ==
  IF bit >= 8 THEN 0
  ELSE BitOf(canvas, x, y, bit) + PackByte(canvas, x, y, bit + 1)

\* mutant: a row has one byte for every eight columns of the canvas
canvasToBitmapCanvasWide(canvas) ==
  [y \in 1..canvas.height |->
     [x \in 1..((canvas.width + 7) \div 8) |-> PackByte(canvas, x - 1, y - 1, 0)]]

canvasToBitmap(canvas) ==
  [y \in 1..canvas.height |->
     [x \in 1..BYTES_PER_LINE |-> PackByte(canvas, x - 1, y - 1, 0)]]

(* ------------------------- command framer ------------------------------ *)
\* mutant: density and label gap are sent in the other order
StagesGapFirst == <<"reset", "wake", "gap", "density", "justify", "speed", "raster", "feed">>

\* the frames printBitmap sends, in program order
Stages == <<"reset", "wake", "density", "gap", "justify", "speed", "raster", "feed">>

\* mutant: the height field holds the nominal LINES_PER_CHUNK
RasterHeaderNominal(chunkHeight) ==
  <<GS, 118, 48, 0, BYTES_PER_LINE, 0, LINES_PER_CHUNK % 256, (LINES_PER_CHUNK \div 256) % 256>>

\* mutant: the 16-bit fields are written high byte first
RasterHeaderBigEndian(chunkHeight) ==
  <<GS, 118, 48, 0, 0, BYTES_PER_LINE, (chunkHeight \div 256) % 256, chunkHeight % 256>>

\* header of a raster block of chunkHeight rows
RasterHeader(chunkHeight) ==
  <<GS, 118, 48, 0, BYTES_PER_LINE, 0, chunkHeight % 256, (chunkHeight \div 256) % 256>>

\* the end line of the raster block that starts at startLine
EndLine(bm, startLine) == Min(startLine + LINES_PER_CHUNK, Len(bm))

\* chunkData: rows startLine .. endLine-1 of the bitmap, concatenated
ChunkData(bm, startLine) ==
  Flatten(SubSeq(bm, startLine + 1, EndLine(bm, startLine)))

RasterFrame(bm, startLine) ==
  RasterHeader(EndLine(bm, startLine) - startLine) \o ChunkData(bm, startLine)

\* mutant: the justification frame selects left (n = 0)
StageFrameLeftJustify(st, bm, startLine) ==
  CASE st = "reset" -> <<ESC, 64>>
    [] st = "wake" -> WAKE_PRINTER
    [] st = "density" -> SET_DENSITY
    [] st = "gap" -> SET_LABEL_GAP
    [] st = "justify" -> <<ESC, 97, 0>>
    [] st = "speed" -> SET_PRINT_SPEED
    [] st = "raster" -> RasterFrame(bm, startLine)
    [] OTHER -> <<ESC, 100, 3>>

\* the argument of the sendData call of printBitmap at a stage
StageFrame(st, bm, startLine) ==
  CASE st = "reset" -> <<ESC, 64>>
    [] st = "wake" -> WAKE_PRINTER
    [] st = "density" -> SET_DENSITY
    [] st = "gap" -> SET_LABEL_GAP
    [] st = "justify" -> <<ESC, 97, 1>>
    [] st = "speed" -> SET_PRINT_SPEED
    [] st = "raster" -> RasterFrame(bm, startLine)
    [] OTHER -> <<ESC, 100, 3>>

\* the sleep printBitmap awaits after the sendData call of a stage (ms)
StageDelay(st) ==
  CASE st = "reset" -> 200
    [] st = "raster" -> 150
    [] OTHER -> 100

(* ------------------------- chunked transport --------------------------- *)
\* mutant: the slice ends one byte too far
ChunkOneTooFar(d, off) == SubSeq(d, off + 1, Min(off + MTU_SIZE + 1, Len(d)))

\* data.slice(i, i + MTU_SIZE)
Chunk(d, off) == SubSeq(d, off + 1, Min(off + MTU_SIZE, Len(d)))


(* ------------------------------ state ---------------------------------- *)
VARIABLES
  device,              \* this.device: a device, or null
  writeCharacteristic, \* this.writeCharacteristic: the device it belongs to, or null
  isConnected,         \* this.isConnected
  gattConnected,       \* the devices whose GATT link is open (device.gatt.connected)
  cpc,                 \* position of the connect() call
  server,              \* connect(): the device whose GATT server it holds
  services,            \* connect(): the enumerated services (TRUE: has the write characteristic)
  sidx,                \* connect(): position of the service loop
  cerr,                \* connect(): the error it rejected with
  notify,              \* connect(): the outcome of its notification step
  op,                  \* the call in flight: "none", "sendData" or "print"
  pc,                  \* its position
  bitmap,              \* printBitmap(): the bitmap
  stage,               \* printBitmap(): index in Stages of the frame being sent
  startLine,           \* printBitmap(): the raster loop variable
  data,                \* sendData(): its argument
  i,                   \* sendData(): the loop variable (offset)
  err,                 \* the error the call rejected with
  writes,              \* the writeValue calls received since the call began
  frames,              \* the arguments of the sendData calls since the call began
  config,              \* this.config of the profile-based PrinterManager: a profile, or null
  image,               \* the canvas handed to canvasToBitmap
  result,              \* what canvasToBitmap returned for it
  calls,               \* overlapping print() calls: the call frame of each
  wire,                \* overlapping print() calls: the writeValue calls received
  connects,            \* overlapping connect() calls: the call frame of each
  atDisconnect,        \* history: where the call in flight stood when disconnect() returned
  handler,             \* StickerPrinterApp: the asynchronous handler in flight, or "none"
  statusModal,         \* StickerPrinterApp: the status modal (open, close button, title)
  connectBtn,          \* StickerPrinterApp: the connect button is displayed
  thrown               \* StickerPrinterApp: the error a handler threw to its caller, or ""

sessionVars == <<device, writeCharacteristic, isConnected, gattConnected>>
connectVars == <<cpc, server, services, sidx, cerr, notify>>
jobVars == <<op, pc, bitmap, stage, startLine, data, i, err, writes, frames>>
profileVars == <<config>>
encodeVars == <<image, result>>
raceVars == <<calls, wire>>
overlapVars == <<connects>>
historyVars == <<atDisconnect>>
appVars == <<handler, statusModal, connectBtn, thrown>>
extVars == <<profileVars, encodeVars, raceVars, overlapVars, historyVars, appVars>>
vars == <<sessionVars, connectVars, jobVars, extVars>>

\* the devices requestDevice can return; "nogatt" exposes no GATT server
Devices == {"p1", "p2", "nogatt"}
HasGatt(d) == d # "nogatt"

\* the results of getPrimaryServices: each service has the write characteristic or not
ServiceLists == UNION {[1..n -> BOOLEAN] : n \in 0..MaxServices}

\* the byte arrays sendData is called with directly
SendLens == {k * MTU_SIZE + d : k \in 0..MaxFull, d \in {0, 1, 10}}
TestData(L) == [j \in 1..L |-> (7 * j + 3) % 256]

\* the canvases print is called with
Canvases ==
  {[width |-> WIDTH, height |-> h, pat |-> "stairs", ctx |-> TRUE, alpha |-> 255, tail |-> "pat"] : h \in 0..MaxRows}
  \cup {[width |-> 8, height |-> 1, pat |-> "black", ctx |-> TRUE, alpha |-> 255, tail |-> "pat"],
        [width |-> WIDTH, height |-> 1, pat |-> "white", ctx |-> FALSE, alpha |-> 255, tail |-> "pat"]}

\* the status modal before it is first shown
NoModal == [open |-> FALSE, close |-> FALSE, title |-> ""]

\* StickerPrinterApp after its constructor: initUI has called
\* updatePrinterStatus on a session that is not connected
AppInit ==
  /\ handler = "none"
  /\ statusModal = NoModal
  /\ connectBtn = TRUE
  /\ thrown = ""

\* the variables of the other specifications, at rest
NoConfig == "null"
NoCanvas == [width |-> 0, height |-> 0, pat |-> "white", ctx |-> FALSE, alpha |-> 255, tail |-> "pat"]
NoResult == [status |-> "none", bitmap |-> <<>>, err |-> ""]
ExtInit ==
  /\ config = NoConfig
  /\ image = NoCanvas /\ result = NoResult
  /\ calls = <<>> /\ wire = <<>>
  /\ connects = <<>>
  /\ atDisconnect = <<>>
  /\ AppInit

Init ==
  /\ device = NoDevice
  /\ writeCharacteristic = NoChar
  /\ isConnected = FALSE
  /\ gattConnected = {}
  /\ cpc = "idle" /\ server = NoDevice /\ services = <<>> /\ sidx = 0 /\ cerr = ""
  /\ notify = "none"
  /\ op = "none" /\ pc = "idle" /\ bitmap = <<>> /\ stage = 0 /\ startLine = 0
  /\ data = <<>> /\ i = 0 /\ err = "" /\ writes = <<>> /\ frames = <<>>
  /\ ExtInit

(* ------------------------------ session -------------------------------- *)
\* mutant: the catch block rethrows without clearing the flag
ConnectFailKeepsFlag(e) ==
  /\ UNCHANGED isConnected
  /\ cpc' = "rejected"
  /\ cerr' = e

\* the catch block of connect(): isConnected = false, rethrow
ConnectFail(e) ==
  /\ isConnected' = FALSE
  /\ cpc' = "rejected"
  /\ cerr' = e

\* connect() is called: it requests a device and suspends.  The caller awaits
\* each asynchronous call before it makes the next one (the application keeps
\* its progress modal open meanwhile); disconnect() is synchronous and may
\* run at any suspension point.
ConnectCall ==
  /\ cpc = "idle"
  /\ op = "none"
  /\ cpc' = "requestDevice"
  /\ UNCHANGED <<server, services, sidx, cerr, notify, sessionVars, jobVars>>
  /\ UNCHANGED extVars

\* requestDevice resolves with a device: this.device is assigned, the device's
\* GATT server is checked, and gatt.connect() is called
RequestDeviceResolve ==
  /\ cpc = "requestDevice"
  /\ \E d \in Devices :
       /\ device' = d
       /\ IF ~HasGatt(d)
          THEN /\ ConnectFail("GATT server not available")
               /\ UNCHANGED server
          ELSE /\ cpc' = "gattConnect"
               /\ server' = d
               /\ UNCHANGED <<isConnected, cerr>>
  /\ UNCHANGED <<writeCharacteristic, gattConnected, services, sidx, notify, jobVars>>
  /\ UNCHANGED extVars

RequestDeviceReject ==
  /\ cpc = "requestDevice"
  /\ ConnectFail("User cancelled")
  /\ UNCHANGED <<device, writeCharacteristic, gattConnected, server, services, sidx, notify, jobVars>>
  /\ UNCHANGED extVars

\* gatt.connect() resolves: the link is open; getPrimaryServices is called
GattConnectResolve ==
  /\ cpc = "gattConnect"
  /\ gattConnected' = gattConnected \cup {server}
  /\ cpc' = "getServices"
  /\ UNCHANGED <<device, writeCharacteristic, isConnected, server, services, sidx, cerr, notify, jobVars>>
  /\ UNCHANGED extVars

GattConnectReject ==
  /\ cpc = "gattConnect"
  /\ ConnectFail("Connection failed")
  /\ UNCHANGED <<device, writeCharacteristic, gattConnected, server, services, sidx, notify, jobVars>>
  /\ UNCHANGED extVars

\* getPrimaryServices resolves: the search loop starts with the first service,
\* or ends at once when there is none
GetServicesResolve ==
  /\ cpc = "getServices"
  /\ \E svcs \in ServiceLists :
       /\ services' = svcs
       /\ IF Len(svcs) = 0
          THEN /\ ConnectFail("Could not find printer service")
               /\ UNCHANGED sidx
          ELSE /\ cpc' = "probe"
               /\ sidx' = 1
               /\ UNCHANGED <<isConnected, cerr>>
  /\ UNCHANGED <<device, writeCharacteristic, gattConnected, server, notify, jobVars>>
  /\ UNCHANGED extVars

GetServicesReject ==
  /\ cpc = "getServices"
  /\ ConnectFail("Service discovery failed")
  /\ UNCHANGED <<device, writeCharacteristic, gattConnected, server, services, sidx, notify, jobVars>>
  /\ UNCHANGED extVars

\* mutant: a rejected lookup is not caught, it ends the search
ProbeSettleFailFast ==
  /\ cpc = "probe"
  /\ IF services[sidx]
     THEN /\ cpc' = "getWrite"
          /\ UNCHANGED <<sidx, isConnected, cerr>>
     ELSE /\ ConnectFail("Could not find printer service")
          /\ UNCHANGED sidx
  /\ UNCHANGED <<device, writeCharacteristic, gattConnected, server, services, notify, jobVars>>
  /\ UNCHANGED extVars

\* s.getCharacteristic(WRITE_CHAR_UUID) of the loop settles: found (the loop
\* breaks and the characteristic is requested again from the selected service),
\* or rejected (swallowed; next service, or 'Could not find printer service')
ProbeSettle ==
  /\ cpc = "probe"
  /\ IF services[sidx]
     THEN /\ cpc' = "getWrite"
          /\ UNCHANGED <<sidx, isConnected, cerr>>
     ELSE IF sidx < Len(services)
          THEN /\ sidx' = sidx + 1
               /\ UNCHANGED <<cpc, isConnected, cerr>>
          ELSE /\ ConnectFail("Could not find printer service")
               /\ UNCHANGED sidx
  /\ UNCHANGED <<device, writeCharacteristic, gattConnected, server, services, notify, jobVars>>
  /\ UNCHANGED extVars

\* mutant: the flag is set as soon as the write characteristic is held
GetWriteResolveSetsFlag ==
  /\ cpc = "getWrite"
  /\ writeCharacteristic' = server
  /\ isConnected' = TRUE
  /\ cpc' = "getNotify"
  /\ UNCHANGED <<device, gattConnected, server, services, sidx, cerr, notify, jobVars>>
  /\ UNCHANGED extVars

\* service.getCharacteristic(WRITE_CHAR_UUID) resolves: this.writeCharacteristic
\* is assigned and the notify characteristic is requested
GetWriteResolve ==
  /\ cpc = "getWrite"
  /\ writeCharacteristic' = server
  /\ cpc' = "getNotify"
  /\ UNCHANGED <<device, isConnected, gattConnected, server, services, sidx, cerr, notify, jobVars>>
  /\ UNCHANGED extVars

GetWriteReject ==
  /\ cpc = "getWrite"
  /\ ConnectFail("GATT operation failed")
  /\ UNCHANGED <<device, writeCharacteristic, gattConnected, server, services, sidx, notify, jobVars>>
  /\ UNCHANGED extVars

\* the end of connect(): isConnected = true; return this.device.name, which
\* throws into the catch block when this.device is null by then
ConnectFinish ==
  IF device = NoDevice
  THEN ConnectFail("TypeError")
  ELSE /\ isConnected' = TRUE
       /\ cpc' = "resolved"
       /\ UNCHANGED cerr

GetNotifyResolve ==
  /\ cpc = "getNotify"
  /\ cpc' = "startNotify"
  /\ UNCHANGED <<server, services, sidx, cerr, notify, sessionVars, jobVars>>
  /\ UNCHANGED extVars

\* the notify characteristic is missing: caught and ignored
GetNotifyReject ==
  /\ cpc = "getNotify"
  /\ notify' = "missing"
  /\ ConnectFinish
  /\ UNCHANGED <<device, writeCharacteristic, gattConnected, server, services, sidx, jobVars>>
  /\ UNCHANGED extVars

\* startNotifications resolves: the end of the try block
StartNotifyResolve ==
  /\ cpc = "startNotify"
  /\ notify' = "started"
  /\ ConnectFinish
  /\ UNCHANGED <<device, writeCharacteristic, gattConnected, server, services, sidx, jobVars>>
  /\ UNCHANGED extVars

\* startNotifications rejects: caught and ignored
StartNotifyReject ==
  /\ cpc = "startNotify"
  /\ notify' = "failed"
  /\ ConnectFinish
  /\ UNCHANGED <<device, writeCharacteristic, gattConnected, server, services, sidx, jobVars>>
  /\ UNCHANGED extVars

\* the caller of connect() takes its result
ConnectReturn ==
  /\ cpc \in {"resolved", "rejected"}
  /\ cpc' = "idle" /\ server' = NoDevice /\ services' = <<>> /\ sidx' = 0 /\ cerr' = ""
  /\ notify' = "none"
  /\ UNCHANGED <<sessionVars, jobVars>>
  /\ UNCHANGED extVars

\* the fields of the session and the links they refer to
Session ==
  [device |-> device, writeCharacteristic |-> writeCharacteristic,
   isConnected |-> isConnected, gattConnected |-> gattConnected]

\* mutant: the device handle is kept
disconnectKeepsDevice(s) ==
  [device |-> s.device,
   writeCharacteristic |-> NoChar,
   isConnected |-> FALSE,
   gattConnected |-> IF s.device # NoDevice /\ HasGatt(s.device) /\ s.device \in s.gattConnected
                     THEN s.gattConnected \ {s.device} ELSE s.gattConnected]

\* mutant: the write characteristic is kept
disconnectKeepsCharacteristic(s) ==
  [device |-> NoDevice,
   writeCharacteristic |-> s.writeCharacteristic,
   isConnected |-> FALSE,
   gattConnected |-> IF s.device # NoDevice /\ HasGatt(s.device) /\ s.device \in s.gattConnected
                     THEN s.gattConnected \ {s.device} ELSE s.gattConnected]

\* disconnect() as a function of the session: the link of the device is
\* closed when there is a device, it has a GATT server and the link is open
\* (this.device?.gatt?.connected); then the three fields are cleared
disconnect(s) ==
  [device |-> NoDevice,
   writeCharacteristic |-> NoChar,
   isConnected |-> FALSE,
   gattConnected |-> IF s.device # NoDevice /\ HasGatt(s.device) /\ s.device \in s.gattConnected
                     THEN s.gattConnected \ {s.device} ELSE s.gattConnected]

\* where the call in flight stands
JobPosition ==
  [pc |-> pc, stage |-> stage, i |-> i, len |-> Len(data), writes |-> Len(writes)]

\* the first disconnect() during a sendData or print call is noted
NoteDisconnect ==
  atDisconnect' = IF op # "none" /\ pc \notin {"resolved", "rejected"} /\ atDisconnect = <<>>
                  THEN <<JobPosition>>
                  ELSE atDisconnect

\* disconnect() is called
Disconnect ==
  /\ LET t == disconnect(Session) IN
       /\ gattConnected' = t.gattConnected
       /\ isConnected' = t.isConnected
       /\ device' = t.device
       /\ writeCharacteristic' = t.writeCharacteristic
  /\ NoteDisconnect
  /\ UNCHANGED <<connectVars, jobVars>>
  /\ UNCHANGED <<profileVars, encodeVars, raceVars, overlapVars, appVars>>

\* the link of a device is lost (out of range, powered off): de.gatt.connected
\* becomes false; the session has no listener for it
LinkLost ==
  /\ \E de \in gattConnected : gattConnected' = gattConnected \ {de}
  /\ UNCHANGED <<device, writeCharacteristic, isConnected, connectVars, jobVars>>
  /\ UNCHANGED extVars

(* ------------------------- sendData / print ---------------------------- *)
\* the call rejects with error e
Reject(e) ==
  /\ pc' = "rejected"
  /\ err' = e

\* mutant: writeValue is not awaited, the call goes on to its pacing delay
IssueWriteNoAwait(d, off) ==
  IF writeCharacteristic = NoChar
  THEN /\ Reject("TypeError")
       /\ UNCHANGED writes
  ELSE /\ writes' = Append(writes, [frame |-> Len(frames'), off |-> off,
                                    bytes |-> SubSeq(d, off + 1, Min(off + MTU_SIZE, Len(d))),
                                    ch |-> writeCharacteristic, status |-> "pending"])
       /\ pc' = "pacing"
       /\ UNCHANGED err

\* writeCharacteristic.writeValue(chunk) is called for the chunk at offset off:
\* the write is outstanding and the call suspends.  A null characteristic
\* (the session was disconnected meanwhile) throws a TypeError instead.
IssueWrite(d, off) ==
  IF writeCharacteristic = NoChar
  THEN /\ Reject("TypeError")
       /\ UNCHANGED writes
  ELSE /\ writes' = Append(writes, [frame |-> Len(frames'), off |-> off,
                                    bytes |-> Chunk(d, off),
                                    ch |-> writeCharacteristic, status |-> "pending"])
       /\ pc' = "write"
       /\ UNCHANGED err

\* sendData returns normally: a direct call resolves, printBitmap goes on to
\* the sleep that follows the frame
SendDataDone(o) ==
  /\ pc' = IF o = "print" THEN "frameDelay" ELSE "resolved"
  /\ UNCHANGED <<err, writes>>

\* mutant: an if in place of the loop, only the first chunk is written
SendLoopOnce(o, d, off) ==
  /\ i' = off
  /\ IF off = 0 /\ off < Len(d) THEN IssueWrite(d, off) ELSE SendDataDone(o)

\* the loop of sendData at offset off: test, slice, write
SendLoop(o, d, off) ==
  /\ i' = off
  /\ IF off < Len(d) THEN IssueWrite(d, off) ELSE SendDataDone(o)

\* mutant: the connection guard is missing
SendDataEnterNoGuard(o, d) ==
  /\ data' = d
  /\ frames' = Append(frames, d)
  /\ SendLoop(o, d, 0)

\* sendData(d) is entered: the connection guard, then the loop
SendDataEnter(o, d) ==
  /\ data' = d
  /\ frames' = Append(frames, d)
  /\ IF writeCharacteristic = NoChar
     THEN /\ Reject("Printer not connected")
          /\ i' = 0
          /\ UNCHANGED writes
     ELSE SendLoop(o, d, 0)

\* sendData(data) is called directly
SendDataCall ==
  /\ op = "none"
  /\ cpc = "idle"
  /\ op' = "sendData"
  /\ \E L \in SendLens : SendDataEnter("sendData", TestData(L))
  /\ UNCHANGED <<bitmap, stage, startLine, sessionVars, connectVars>>
  /\ UNCHANGED extVars

\* getImageData never throws (what the canvas mock of the unit tests does)
ImageDataOutcomesGuarded(canvas) == {"data"}

\* The outcomes of ctx.getImageData(0, 0, canvas.width, canvas.height).  For a
\* rectangle of zero width or height a browser throws an IndexSizeError
\* (HTML Standard, getImageData); the canvas mock of the unit tests returns an
\* ImageData with empty data instead.
ImageDataOutcomes(canvas) ==
  IF canvas.width = 0 \/ canvas.height = 0
  THEN {"IndexSizeError", "data"}
  ELSE {"data"}

\* print(canvas) is called: canvasToBitmap, then printBitmap up to its first
\* suspension inside sendData([ESC, 0x40])
print(canvases) ==
  /\ op = "none"
  /\ cpc = "idle"
  /\ op' = "print"
  /\ \E canvas \in canvases :
       /\ image' = canvas
       /\ IF ~canvas.ctx
          THEN /\ Reject("Could not get 2D context from canvas")
               /\ UNCHANGED <<bitmap, stage, startLine, data, i, writes, frames>>
          ELSE \E o \in ImageDataOutcomes(canvas) :
                 IF o = "IndexSizeError"
                 THEN /\ Reject("IndexSizeError")
                      /\ UNCHANGED <<bitmap, stage, startLine, data, i, writes, frames>>
                 ELSE /\ bitmap' = canvasToBitmap(canvas)
                      /\ stage' = 1
                      /\ startLine' = 0
                      /\ SendDataEnter("print", StageFrame(Stages[1], bitmap', 0))
  /\ UNCHANGED <<sessionVars, connectVars>>
  /\ UNCHANGED <<profileVars, result, raceVars, overlapVars, historyVars>>

\* print(canvas) is called on the PrinterManager directly
PrintCall ==
  /\ print(Canvases)
  /\ UNCHANGED appVars

\* the status of the outstanding write becomes s
Settle(s) ==
  [writes EXCEPT ![Len(writes)] = [@ EXCEPT !.status = s]]

\* the outstanding write completes, which takes an open link: the pacing
\* delay sleep(5) starts
WriteResolve ==
  /\ pc = "write"
  /\ writes[Len(writes)].ch \in gattConnected
  /\ writes' = Settle("ok")
  /\ pc' = "pacing"
  /\ UNCHANGED <<op, bitmap, stage, startLine, data, i, err, frames, sessionVars, connectVars>>
  /\ UNCHANGED extVars

\* mutant: the error of the write is caught and the loop goes on
WriteRejectSwallowed ==
  /\ pc = "write"
  /\ writes' = Settle("rejected")
  /\ pc' = "pacing"
  /\ UNCHANGED <<op, bitmap, stage, startLine, data, i, err, frames, sessionVars, connectVars>>
  /\ UNCHANGED extVars

\* mutant: printBitmap catches the error of sendData and goes on with the job
WriteRejectJobGoesOn ==
  /\ pc = "write"
  /\ writes' = Settle("rejected")
  /\ IF op = "print"
     THEN pc' = "frameDelay" /\ UNCHANGED err
     ELSE Reject("Write failed")
  /\ UNCHANGED <<op, bitmap, stage, startLine, data, i, frames, sessionVars, connectVars>>
  /\ UNCHANGED extVars

\* mutant: the first rejected write of a call is issued once more
WriteRejectRetries ==
  /\ pc = "write"
  /\ IF \E k \in 1..Len(writes) : writes[k].status = "rejected"
     THEN /\ writes' = Settle("rejected")
          /\ Reject("Write failed")
     ELSE /\ writes' = Append(Settle("rejected"),
                              [writes[Len(writes)] EXCEPT !.status = "pending"])
          /\ UNCHANGED <<pc, err>>
  /\ UNCHANGED <<op, bitmap, stage, startLine, data, i, frames, sessionVars, connectVars>>
  /\ UNCHANGED extVars

\* the outstanding write is rejected: sendData (and print) reject with the error
WriteReject ==
  /\ pc = "write"
  /\ writes' = Settle("rejected")
  /\ Reject("Write failed")
  /\ UNCHANGED <<op, bitmap, stage, startLine, data, i, frames, sessionVars, connectVars>>
  /\ UNCHANGED extVars

\* mutant: the timer of sleep(5) fires but the loop is not resumed
PacingElapsedLost ==
  /\ pc = "pacing"
  /\ UNCHANGED vars

\* sleep(5) elapses: i += MTU_SIZE and the loop goes on
PacingElapsed ==
  /\ pc = "pacing"
  /\ UNCHANGED <<op, bitmap, stage, startLine, data, frames, sessionVars, connectVars>>
  /\ SendLoop(op, data, i + MTU_SIZE)
  /\ UNCHANGED extVars

\* the stage and raster position that follow the frame just sent
NextStage(st, bm, sl) ==
  CASE Stages[st] = "speed" ->
         IF 0 < Len(bm) THEN [stage |-> st + 1, startLine |-> 0]
         ELSE [stage |-> st + 2, startLine |-> 0]
    [] Stages[st] = "raster" ->
         IF sl + LINES_PER_CHUNK < Len(bm)
         THEN [stage |-> st, startLine |-> sl + LINES_PER_CHUNK]
         ELSE [stage |-> st + 1, startLine |-> sl + LINES_PER_CHUNK]
    [] OTHER -> [stage |-> st + 1, startLine |-> sl]

\* the sleep after a frame elapses: printBitmap sends the next frame, or
\* returns after the sleep that follows the feed frame
FrameDelayElapsed ==
  /\ pc = "frameDelay"
  /\ IF Stages[stage] = "feed"
     THEN /\ pc' = "resolved"
          /\ UNCHANGED <<stage, startLine, data, i, err, writes, frames>>
     ELSE LET n == NextStage(stage, bitmap, startLine) IN
          /\ stage' = n.stage
          /\ startLine' = n.startLine
          /\ SendDataEnter("print", StageFrame(Stages[n.stage], bitmap, n.startLine))
  /\ UNCHANGED <<op, bitmap, sessionVars, connectVars>>
  /\ UNCHANGED extVars

\* the caller takes the result of the call
JobReturn ==
  /\ pc \in {"resolved", "rejected"}
  /\ op' = "none" /\ pc' = "idle" /\ bitmap' = <<>> /\ stage' = 0 /\ startLine' = 0
  /\ data' = <<>> /\ i' = 0 /\ err' = "" /\ writes' = <<>> /\ frames' = <<>>
  /\ image' = NoCanvas
  /\ atDisconnect' = <<>>
  /\ UNCHANGED <<sessionVars, connectVars>>
  /\ UNCHANGED <<profileVars, result, raceVars, overlapVars, appVars>>

Next ==
  \/ ConnectCall \/ RequestDeviceResolve \/ RequestDeviceReject
  \/ GattConnectResolve \/ GattConnectReject
  \/ GetServicesResolve \/ GetServicesReject \/ ProbeSettle
  \/ GetWriteResolve \/ GetWriteReject
  \/ GetNotifyResolve \/ GetNotifyReject \/ StartNotifyResolve \/ StartNotifyReject
  \/ ConnectReturn \/ Disconnect \/ LinkLost
  \/ SendDataCall \/ PrintCall
  \/ WriteResolve \/ WriteReject \/ PacingElapsed \/ FrameDelayElapsed
  \/ JobReturn

Spec == Init /\ [][Next]_vars

\* Every writeValue settles and every timer of sleep() fires: the calls that
\* wait for them are resumed.  Nothing obliges the callers to call anything.
Settling ==
  /\ WF_vars(WriteResolve \/ WriteReject)
  /\ WF_vars(PacingElapsed)
  /\ WF_vars(FrameDelayElapsed)

SpecLive == Init /\ [][Next]_vars /\ Settling

(* ------------------- canvasToBitmap on its own ------------------------- *)
\* the canvases canvasToBitmap is called with: narrower than the print head,
\* as wide, and wider; with and without a 2D context
EncodeWidths == {1, 7, 8, 9, WIDTH - 1, WIDTH, WIDTH + 1, WIDTH + 8, WIDTH + 16}
EncodeCanvases ==
  [width : EncodeWidths, height : 0..MaxHeight,
   pat : {"black", "white", "stairs", "grey"}, ctx : BOOLEAN,
   alpha : {128, 255}, tail : {"pat", "black"}]

InitEncode ==
  /\ device = NoDevice /\ writeCharacteristic = NoChar /\ isConnected = FALSE
  /\ gattConnected = {}
  /\ cpc = "idle" /\ server = NoDevice /\ services = <<>> /\ sidx = 0 /\ cerr = ""
  /\ notify = "none"
  /\ op = "none" /\ pc = "idle" /\ bitmap = <<>> /\ stage = 0 /\ startLine = 0
  /\ data = <<>> /\ i = 0 /\ err = "" /\ writes = <<>> /\ frames = <<>>
  /\ config = NoConfig
  /\ image \in EncodeCanvases /\ result = NoResult
  /\ calls = <<>> /\ wire = <<>>
  /\ connects = <<>>
  /\ atDisconnect = <<>>
  /\ AppInit

\* canvasToBitmap(image) is called: it throws without a 2D context or when
\* getImageData throws, and returns the bitmap otherwise
CanvasToBitmapCall ==
  /\ result.status = "none"
  /\ IF ~image.ctx
     THEN result' = [status |-> "threw", bitmap |-> <<>>,
                     err |-> "Could not get 2D context from canvas"]
     ELSE \E o \in ImageDataOutcomes(image) :
            result' = IF o = "IndexSizeError"
                      THEN [status |-> "threw", bitmap |-> <<>>, err |-> "IndexSizeError"]
                      ELSE [status |-> "returned", bitmap |-> canvasToBitmap(image), err |-> ""]
  /\ UNCHANGED <<image, sessionVars, connectVars, jobVars, profileVars, raceVars, overlapVars, historyVars, appVars>>

NextEncode == CanvasToBitmapCall

SpecEncode == InitEncode /\ [][NextEncode]_vars

(* --------------- the profile-based PrinterManager ---------------------- *)
\* The PrinterManager that the first test suite exercises keeps the resolved
\* device profile in this.config.  Its connect(), disconnect() and print()
\* differ from the ones above in that field only; the job is the one of the
\* T02 profile, whose values are those of PRINTER_CONFIG.
T02 == "T02"

\* the write characteristic of a registry entry is found: the profile is resolved
GetWriteResolveProfile ==
  /\ cpc = "getWrite"
  /\ writeCharacteristic' = server
  /\ config' = T02
  /\ cpc' = "getNotify"
  /\ UNCHANGED <<device, isConnected, gattConnected, server, services, sidx, cerr, notify, jobVars>>
  /\ UNCHANGED <<encodeVars, raceVars, overlapVars, historyVars, appVars>>

\* disconnect(): the session fields, the profile among them, are cleared
DisconnectProfile ==
  /\ LET t == disconnect(Session) IN
       /\ gattConnected' = t.gattConnected
       /\ isConnected' = t.isConnected
       /\ device' = t.device
       /\ writeCharacteristic' = t.writeCharacteristic
  /\ config' = NoConfig
  /\ NoteDisconnect
  /\ UNCHANGED <<connectVars, jobVars, encodeVars, raceVars, overlapVars, appVars>>

\* mutant: print does not look at the profile
PrintCallProfileNoCheck == PrintCall

\* print(canvas): canvasToBitmap throws 'Printer not configured' when the
\* session has no profile; with a profile the call is the one above
PrintCallProfile ==
  IF config = NoConfig
  THEN /\ op = "none"
       /\ cpc = "idle"
       /\ op' = "print"
       /\ Reject("Printer not configured")
       /\ UNCHANGED <<bitmap, stage, startLine, data, i, writes, frames>>
       /\ UNCHANGED <<sessionVars, connectVars, extVars>>
  ELSE PrintCall

NextProfile ==
  \/ ConnectCall \/ RequestDeviceResolve \/ RequestDeviceReject
  \/ GattConnectResolve \/ GattConnectReject
  \/ GetServicesResolve \/ GetServicesReject \/ ProbeSettle
  \/ GetWriteResolveProfile \/ GetWriteReject
  \/ GetNotifyResolve \/ GetNotifyReject \/ StartNotifyResolve \/ StartNotifyReject
  \/ ConnectReturn \/ DisconnectProfile \/ LinkLost
  \/ SendDataCall \/ PrintCallProfile
  \/ WriteResolve \/ WriteReject \/ PacingElapsed \/ FrameDelayElapsed
  \/ JobReturn

SpecProfile == Init /\ [][NextProfile]_vars

(* --------------------- overlapping print() calls ----------------------- *)
\* PrinterManager keeps no busy flag: print() can be called again while an
\* earlier call is suspended.  Each call has its own frame; the calls share
\* this.writeCharacteristic.  The session is one on which connect() has
\* succeeded, and it is left alone meanwhile.
Calls == {"first", "second"}

\* the canvas each of the overlapping calls prints: the raster frame of the
\* first takes two chunks, that of the second one
RaceCanvas(j) ==
  [width |-> WIDTH, height |-> IF j = "first" THEN 3 ELSE 1, pat |-> "stairs", ctx |-> TRUE, alpha |-> 255, tail |-> "pat"]

IdleCall ==
  [pc |-> "idle", bitmap |-> <<>>, stage |-> 0, startLine |-> 0,
   data |-> <<>>, i |-> 0, err |-> ""]

InitRace ==
  /\ device = "p1" /\ writeCharacteristic = "p1" /\ isConnected = TRUE
  /\ gattConnected = {"p1"}
  /\ cpc = "idle" /\ server = NoDevice /\ services = <<>> /\ sidx = 0 /\ cerr = ""
  /\ notify = "none"
  /\ op = "none" /\ pc = "idle" /\ bitmap = <<>> /\ stage = 0 /\ startLine = 0
  /\ data = <<>> /\ i = 0 /\ err = "" /\ writes = <<>> /\ frames = <<>>
  /\ config = NoConfig
  /\ image = NoCanvas /\ result = NoResult
  /\ calls = [j \in Calls |-> IdleCall]
  /\ wire = <<>>
  /\ connects = <<>>
  /\ atDisconnect = <<>>
  /\ AppInit

\* the loop of sendData in call j, whose frame is c, at offset off: the chunk
\* is written and the call suspends, or sendData returns to printBitmap
RaceSendLoop(j, c, off) ==
  IF off < Len(c.data)
  THEN IF writeCharacteristic = NoChar
       THEN /\ calls' = [calls EXCEPT ![j] = [c EXCEPT !.i = off, !.pc = "rejected", !.err = "TypeError"]]
            /\ UNCHANGED wire
       ELSE /\ calls' = [calls EXCEPT ![j] = [c EXCEPT !.i = off, !.pc = "write"]]
            /\ wire' = Append(wire, [call |-> j, stage |-> c.stage, off |-> off,
                                     len |-> Len(Chunk(c.data, off)), status |-> "pending"])
  ELSE /\ calls' = [calls EXCEPT ![j] = [c EXCEPT !.i = off, !.pc = "frameDelay"]]
       /\ UNCHANGED wire

\* sendData(c.data) is entered in call j
RaceSendDataEnter(j, c) ==
  IF writeCharacteristic = NoChar
  THEN /\ calls' = [calls EXCEPT ![j] = [c EXCEPT !.i = 0, !.pc = "rejected", !.err = "Printer not connected"]]
       /\ UNCHANGED wire
  ELSE RaceSendLoop(j, c, 0)

\* print(canvas) is called, whatever the other call is doing
RacePrintCall(j) ==
  /\ calls[j].pc = "idle"
  /\ LET bm == canvasToBitmap(RaceCanvas(j)) IN
       RaceSendDataEnter(j, [IdleCall EXCEPT !.bitmap = bm, !.stage = 1,
                                            !.data = StageFrame(Stages[1], bm, 0)])
  /\ UNCHANGED <<sessionVars, connectVars, jobVars, profileVars, encodeVars, overlapVars, historyVars, appVars>>

\* the position in wire of the outstanding write of call j
Outstanding(j) ==
  CHOOSE k \in 1..Len(wire) : wire[k].call = j /\ wire[k].status = "pending"

RaceWriteResolve(j) ==
  /\ calls[j].pc = "write"
  /\ wire' = [wire EXCEPT ![Outstanding(j)] = [@ EXCEPT !.status = "ok"]]
  /\ calls' = [calls EXCEPT ![j] = [@ EXCEPT !.pc = "pacing"]]
  /\ UNCHANGED <<sessionVars, connectVars, jobVars, profileVars, encodeVars, overlapVars, historyVars, appVars>>

RaceWriteReject(j) ==
  /\ calls[j].pc = "write"
  /\ wire' = [wire EXCEPT ![Outstanding(j)] = [@ EXCEPT !.status = "rejected"]]
  /\ calls' = [calls EXCEPT ![j] = [@ EXCEPT !.pc = "rejected", !.err = "Write failed"]]
  /\ UNCHANGED <<sessionVars, connectVars, jobVars, profileVars, encodeVars, overlapVars, historyVars, appVars>>

RacePacingElapsed(j) ==
  /\ calls[j].pc = "pacing"
  /\ RaceSendLoop(j, calls[j], calls[j].i + MTU_SIZE)
  /\ UNCHANGED <<sessionVars, connectVars, jobVars, profileVars, encodeVars, overlapVars, historyVars, appVars>>

RaceFrameDelayElapsed(j) ==
  /\ calls[j].pc = "frameDelay"
  /\ LET c == calls[j] IN
       IF Stages[c.stage] = "feed"
       THEN /\ calls' = [calls EXCEPT ![j] = [c EXCEPT !.pc = "resolved"]]
            /\ UNCHANGED wire
       ELSE LET n == NextStage(c.stage, c.bitmap, c.startLine) IN
            RaceSendDataEnter(j, [c EXCEPT !.stage = n.stage, !.startLine = n.startLine,
                                           !.data = StageFrame(Stages[n.stage], c.bitmap, n.startLine)])
  /\ UNCHANGED <<sessionVars, connectVars, jobVars, profileVars, encodeVars, overlapVars, historyVars, appVars>>

\* the caller of call j takes its result
RaceReturn(j) ==
  /\ calls[j].pc \in {"resolved", "rejected"}
  /\ calls' = [calls EXCEPT ![j] = IdleCall]
  /\ wire' = SelectSeq(wire, LAMBDA w : w.call # j)
  /\ UNCHANGED <<sessionVars, connectVars, jobVars, profileVars, encodeVars, overlapVars, historyVars, appVars>>

NextRace ==
  \E j \in Calls :
    \/ RacePrintCall(j) \/ RaceWriteResolve(j) \/ RaceWriteReject(j)
    \/ RacePacingElapsed(j) \/ RaceFrameDelayElapsed(j) \/ RaceReturn(j)

SpecRace == InitRace /\ [][NextRace]_vars

(* -------------------- overlapping connect() calls ---------------------- *)
\* PrinterManager does not remember that a connect() is in progress: connect()
\* can be called again while an earlier call is suspended, and disconnect()
\* can run at any suspension point.  Each call has its own frame (server,
\* services, the loop position); the calls share the fields of the session.
ConnectCalls == {"first", "second"}

IdleConnect == [cpc |-> "idle", server |-> NoDevice, services |-> <<>>, sidx |-> 0, cerr |-> ""]

InitOverlap ==
  /\ device = NoDevice /\ writeCharacteristic = NoChar /\ isConnected = FALSE
  /\ gattConnected = {}
  /\ cpc = "idle" /\ server = NoDevice /\ services = <<>> /\ sidx = 0 /\ cerr = ""
  /\ notify = "none"
  /\ op = "none" /\ pc = "idle" /\ bitmap = <<>> /\ stage = 0 /\ startLine = 0
  /\ data = <<>> /\ i = 0 /\ err = "" /\ writes = <<>> /\ frames = <<>>
  /\ config = NoConfig
  /\ image = NoCanvas /\ result = NoResult
  /\ calls = <<>> /\ wire = <<>>
  /\ connects = [j \in ConnectCalls |-> IdleConnect]
  /\ atDisconnect = <<>>
  /\ AppInit

\* what the steps of an overlapping call leave alone
OverlapFrame == <<connectVars, jobVars, profileVars, encodeVars, raceVars, historyVars, appVars>>

\* the catch block of call j: isConnected = false, rethrow; the locals are gone
OverlapFail(j, e) ==
  /\ isConnected' = FALSE
  /\ connects' = [connects EXCEPT ![j] = [IdleConnect EXCEPT !.cpc = "rejected", !.cerr = e]]

\* call j moves on to position p
OverlapGoto(j, p) == connects' = [connects EXCEPT ![j].cpc = p]

OverlapConnectCall(j) ==
  /\ connects[j].cpc = "idle"
  /\ OverlapGoto(j, "requestDevice")
  /\ UNCHANGED <<sessionVars, OverlapFrame>>

\* requestDevice of call j settles
OverlapRequestDevice(j) ==
  /\ connects[j].cpc = "requestDevice"
  /\ \/ \E d \in Devices :
          /\ device' = d
          /\ IF ~HasGatt(d)
             THEN OverlapFail(j, "GATT server not available")
             ELSE /\ connects' = [connects EXCEPT ![j].cpc = "gattConnect", ![j].server = d]
                  /\ UNCHANGED isConnected
     \/ /\ OverlapFail(j, "User cancelled")
        /\ UNCHANGED device
  /\ UNCHANGED <<writeCharacteristic, gattConnected, OverlapFrame>>

\* gatt.connect() of call j settles
OverlapGattConnect(j) ==
  /\ connects[j].cpc = "gattConnect"
  /\ \/ /\ gattConnected' = gattConnected \cup {connects[j].server}
        /\ OverlapGoto(j, "getServices")
        /\ UNCHANGED isConnected
     \/ /\ OverlapFail(j, "Connection failed")
        /\ UNCHANGED gattConnected
  /\ UNCHANGED <<device, writeCharacteristic, OverlapFrame>>

\* getPrimaryServices of call j settles
OverlapGetServices(j) ==
  /\ connects[j].cpc = "getServices"
  /\ \/ \E svcs \in ServiceLists :
          IF Len(svcs) = 0
          THEN OverlapFail(j, "Could not find printer service")
          ELSE /\ connects' = [connects EXCEPT ![j].cpc = "probe", ![j].services = svcs,
                                               ![j].sidx = 1]
               /\ UNCHANGED isConnected
     \/ OverlapFail(j, "Service discovery failed")
  /\ UNCHANGED <<device, writeCharacteristic, gattConnected, OverlapFrame>>

\* a lookup of the search loop of call j settles
OverlapProbe(j) ==
  /\ connects[j].cpc = "probe"
  /\ LET c == connects[j] IN
       IF c.services[c.sidx]
       THEN OverlapGoto(j, "getWrite") /\ UNCHANGED isConnected
       ELSE IF c.sidx < Len(c.services)
            THEN /\ connects' = [connects EXCEPT ![j].sidx = c.sidx + 1]
                 /\ UNCHANGED isConnected
            ELSE OverlapFail(j, "Could not find printer service")
  /\ UNCHANGED <<device, writeCharacteristic, gattConnected, OverlapFrame>>

\* service.getCharacteristic(WRITE_CHAR_UUID) of call j settles
OverlapGetWrite(j) ==
  /\ connects[j].cpc = "getWrite"
  /\ \/ /\ writeCharacteristic' = connects[j].server
        /\ OverlapGoto(j, "getNotify")
        /\ UNCHANGED isConnected
     \/ /\ OverlapFail(j, "GATT operation failed")
        /\ UNCHANGED writeCharacteristic
  /\ UNCHANGED <<device, gattConnected, OverlapFrame>>

\* the end of call j: isConnected = true; return this.device.name
OverlapFinish(j) ==
  IF device = NoDevice
  THEN OverlapFail(j, "TypeError")
  ELSE /\ isConnected' = TRUE
       /\ connects' = [connects EXCEPT ![j] = [IdleConnect EXCEPT !.cpc = "resolved"]]

\* the lookup of the notify characteristic of call j settles
OverlapGetNotify(j) ==
  /\ connects[j].cpc = "getNotify"
  /\ \/ OverlapGoto(j, "startNotify") /\ UNCHANGED isConnected
     \/ OverlapFinish(j)
  /\ UNCHANGED <<device, writeCharacteristic, gattConnected, OverlapFrame>>

\* startNotifications of call j settles; a rejection is caught and ignored
OverlapStartNotify(j) ==
  /\ connects[j].cpc = "startNotify"
  /\ OverlapFinish(j)
  /\ UNCHANGED <<device, writeCharacteristic, gattConnected, OverlapFrame>>

\* the caller of call j takes its result
OverlapReturn(j) ==
  /\ connects[j].cpc \in {"resolved", "rejected"}
  /\ connects' = [connects EXCEPT ![j] = IdleConnect]
  /\ UNCHANGED <<sessionVars, OverlapFrame>>

\* disconnect() is called
OverlapDisconnect ==
  /\ LET t == disconnect(Session) IN
       /\ gattConnected' = t.gattConnected
       /\ isConnected' = t.isConnected
       /\ device' = t.device
       /\ writeCharacteristic' = t.writeCharacteristic
  /\ UNCHANGED <<overlapVars, OverlapFrame>>

NextOverlap ==
  \/ \E j \in ConnectCalls :
       \/ OverlapConnectCall(j) \/ OverlapRequestDevice(j) \/ OverlapGattConnect(j)
       \/ OverlapGetServices(j) \/ OverlapProbe(j) \/ OverlapGetWrite(j)
       \/ OverlapGetNotify(j) \/ OverlapStartNotify(j) \/ OverlapReturn(j)
  \/ OverlapDisconnect

SpecOverlap == InitOverlap /\ [][NextOverlap]_vars

(* ------------------------ StickerPrinterApp ---------------------------- *)
\* The application drives one PrinterManager from its buttons.  The status
\* modal is a modal dialog: while it is open the page behind it is inert, so
\* a handler starts only when the modal is closed.  The user closes the modal
\* with its OK button or dismisses it (a click on the backdrop).
showStatus(title) == [open |-> TRUE, close |-> FALSE, title |-> title]

showStatusWithClose(title) == [open |-> TRUE, close |-> TRUE, title |-> title]

closeStatus(m) == [m EXCEPT !.open = FALSE]

\* the canvas of the application, with some rows drawn
AppCanvases ==
  {[width |-> WIDTH, height |-> h, pat |-> "stairs", ctx |-> TRUE, alpha |-> 255, tail |-> "pat"] :
     h \in 1..MaxHeight}

PrintHandlers == {"printImageOnly", "saveAndPrint"}

AppFrame == <<profileVars, encodeVars, raceVars, overlapVars>>

\* mutant: the handler has no catch block, the success path only
ConnectPrinterSettledNoCatch ==
  /\ handler = "connectPrinter"
  /\ cpc \in {"resolved", "rejected"}
  /\ IF cpc = "resolved"
     THEN /\ connectBtn' = ~isConnected
          /\ statusModal' = showStatusWithClose("Connected!")
          /\ UNCHANGED thrown
     ELSE /\ thrown' = cerr
          /\ UNCHANGED <<connectBtn, statusModal>>
  /\ handler' = "none"
  /\ cpc' = "idle" /\ server' = NoDevice /\ services' = <<>> /\ sidx' = 0 /\ cerr' = ""
  /\ notify' = "none"
  /\ UNCHANGED <<sessionVars, jobVars, historyVars, AppFrame>>

\* connectPrinter(): the progress modal is shown and connect() is called
ConnectPrinter ==
  /\ handler = "none"
  /\ ~statusModal.open
  /\ connectBtn
  /\ cpc = "idle" /\ op = "none"
  /\ statusModal' = showStatus("Connecting...")
  /\ handler' = "connectPrinter"
  /\ cpc' = "requestDevice"
  /\ UNCHANGED <<server, services, sidx, cerr, notify, sessionVars, jobVars>>
  /\ UNCHANGED <<connectBtn, thrown, historyVars, AppFrame>>

\* connect() has settled: updatePrinterStatus, then the modal with the close
\* button, 'Connected!' from the try block or 'Connection Failed' from the catch
ConnectPrinterSettled ==
  /\ handler = "connectPrinter"
  /\ cpc \in {"resolved", "rejected"}
  /\ connectBtn' = ~isConnected
  /\ statusModal' = showStatusWithClose(IF cpc = "resolved" THEN "Connected!"
                                        ELSE "Connection Failed")
  /\ handler' = "none"
  /\ cpc' = "idle" /\ server' = NoDevice /\ services' = <<>> /\ sidx' = 0 /\ cerr' = ""
  /\ notify' = "none"
  /\ UNCHANGED <<sessionVars, jobVars, thrown, historyVars, AppFrame>>

\* disconnectPrinter(), from the disconnect button: disconnect(),
\* updatePrinterStatus, the modal with the close button
DisconnectPrinter ==
  /\ ~statusModal.open
  /\ ~connectBtn
  /\ LET t == disconnect(Session) IN
       /\ gattConnected' = t.gattConnected
       /\ isConnected' = t.isConnected
       /\ device' = t.device
       /\ writeCharacteristic' = t.writeCharacteristic
       /\ connectBtn' = ~t.isConnected
  /\ NoteDisconnect
  /\ statusModal' = showStatusWithClose("Disconnected")
  /\ UNCHANGED <<handler, thrown, connectVars, jobVars, AppFrame>>

\* printImageOnly() or saveAndPrint(): the print options are closed (and the
\* canvas saved), the progress modal is shown and print(this.canvas) is called
PrintHandler ==
  /\ handler = "none"
  /\ ~statusModal.open
  /\ \E h \in PrintHandlers : handler' = h
  /\ statusModal' = showStatus("Printing...")
  /\ print(AppCanvases)
  /\ UNCHANGED <<connectBtn, thrown>>

\* print() has settled: the modal with the close button, 'Success!' from the
\* try block or 'Error' from the catch
PrintHandlerSettled ==
  /\ handler \in PrintHandlers
  /\ pc \in {"resolved", "rejected"}
  /\ statusModal' = showStatusWithClose(IF pc = "resolved" THEN "Success!" ELSE "Error")
  /\ handler' = "none"
  /\ op' = "none" /\ pc' = "idle" /\ bitmap' = <<>> /\ stage' = 0 /\ startLine' = 0
  /\ data' = <<>> /\ i' = 0 /\ err' = "" /\ writes' = <<>> /\ frames' = <<>>
  /\ image' = NoCanvas
  /\ atDisconnect' = <<>>
  /\ UNCHANGED <<sessionVars, connectVars, connectBtn, thrown>>
  /\ UNCHANGED <<profileVars, result, raceVars, overlapVars>>

\* the user closes the status modal: the OK button, or a click on the backdrop
CloseStatus ==
  /\ statusModal.open
  /\ statusModal' = closeStatus(statusModal)
  /\ UNCHANGED <<handler, connectBtn, thrown, sessionVars, connectVars, jobVars>>
  /\ UNCHANGED <<historyVars, AppFrame>>

NextApp ==
  \/ ConnectPrinter \/ ConnectPrinterSettled \/ DisconnectPrinter
  \/ PrintHandler \/ PrintHandlerSettled \/ CloseStatus
  \/ RequestDeviceResolve \/ RequestDeviceReject
  \/ GattConnectResolve \/ GattConnectReject
  \/ GetServicesResolve \/ GetServicesReject \/ ProbeSettle
  \/ GetWriteResolve \/ GetWriteReject
  \/ GetNotifyResolve \/ GetNotifyReject \/ StartNotifyResolve \/ StartNotifyReject
  \/ LinkLost
  \/ WriteResolve \/ WriteReject \/ PacingElapsed \/ FrameDelayElapsed

SpecApp == Init /\ [][NextApp]_vars

\* The continuation of a handler runs once the promise it awaits has settled.
\* Nothing obliges the promise of connect() or print() to settle, nor the
\* user to press anything.
Resuming ==
  /\ WF_vars(ConnectPrinterSettled)
  /\ WF_vars(PrintHandlerSettled)

SpecAppLive == Init /\ [][NextApp]_vars /\ Resuming

(* ============================== claims ================================= *)
CeilDiv(a, b) == (a + b - 1) \div b

Last(sq) == sq[Len(sq)]

\* the bytes of the writes received, in the order they were issued
WrittenBytes == Flatten([k \in 1..Len(writes) |-> writes[k].bytes])

Pending == {k \in 1..Len(writes) : writes[k].status = "pending"}

\* C1: a sendData call of L bytes whose writes all succeed issues exactly
\* ceil(L/150) writes, write k (0-based) carries min(150, L - 150k) bytes, the
\* writes concatenated in issue order are the data, and an empty byte
\* sequence is sent without any write and resolves.
C1_ChunkCountAndSizes ==
  /\ (op = "sendData" /\ pc = "resolved") =>
       /\ Len(writes) = CeilDiv(Len(data), 150)
       /\ \A k \in 1..Len(writes) :
            /\ Len(writes[k].bytes) = Min(150, Len(data) - 150 * (k - 1))
            /\ writes[k].status = "ok"
       /\ WrittenBytes = data
  /\ (op = "sendData" /\ data = <<>> /\ err # "Printer not connected") =>
       (pc = "resolved" /\ writes = <<>>)

C1_Witness ==
  /\ op = "sendData" /\ pc = "resolved"
  /\ Len(data) = 310
  /\ Len(writes) = 3
  /\ Len(writes[3].bytes) = 10

\* C2: within one sendData call chunk writes are strictly sequential: at most
\* one write is outstanding and the call waits for it; the next chunk is written
\* only after the previous write completed and its pacing delay elapsed; the
\* chunks of a call reach the characteristic in increasing offset order.
C2_State ==
  /\ Cardinality(Pending) <= 1
  /\ \A k \in Pending : k = Len(writes) /\ pc = "write"
  /\ \A k \in 1..Len(writes) - 1 :
       writes[k].frame = writes[k + 1].frame => writes[k].off < writes[k + 1].off

C2_Step ==
  (Len(writes') > Len(writes) /\ writes # <<>>
     /\ Last(writes').frame = Last(writes).frame) =>
    (pc = "pacing" /\ Last(writes).status = "ok" /\ Len(writes') = Len(writes) + 1)

C2_SequentialWrites == [] C2_State /\ [][C2_Step]_vars

C2_Witness ==
  /\ pc = "write"
  /\ Len(writes) >= 2
  /\ writes[Len(writes) - 1].frame = Last(writes).frame
  /\ Last(writes).off = 150

\* C3: when the write of a chunk is rejected, sendData rejects with that
\* error, the chunk is not written again and no later chunk is written.
C3_WriteFailureAborts ==
  \A k \in 1..Len(writes) :
    writes[k].status = "rejected" =>
      /\ k = Len(writes)
      /\ pc = "rejected"
      /\ err = "Write failed"
      /\ \A j \in 1..Len(writes) :
           (writes[j].frame = writes[k].frame /\ writes[j].off = writes[k].off) => j = k

C3_Witness ==
  /\ op = "sendData" /\ pc = "rejected"
  /\ Len(data) = 310
  /\ Len(writes) = 2
  /\ writes[2].status = "rejected"

\* C4: a sendData call entered while the session has no write characteristic
\* rejects with 'Printer not connected', whatever its input (the empty byte
\* sequence included), and issues no write.
C4_Step ==
  (Len(frames') = Len(frames) + 1 /\ writeCharacteristic = NoChar) =>
    /\ pc' = "rejected"
    /\ err' = "Printer not connected"
    /\ writes' = writes

C4_NotConnected == [][C4_Step]_vars

C4_Witness ==
  /\ op = "sendData" /\ pc = "rejected"
  /\ data = <<>>
  /\ err = "Printer not connected"
  /\ writes = <<>>

\* the writes that carry the single-chunk frame f
FrameWrites(f) == {k \in 1..Len(writes) : writes[k].off = 0 /\ writes[k].bytes = f}

\* the writes that begin a raster block
RasterStarts ==
  {k \in 1..Len(writes) :
     /\ writes[k].off = 0
     /\ Len(writes[k].bytes) >= 4
     /\ SubSeq(writes[k].bytes, 1, 4) = <<29, 118, 48, 0>>}

\* the number of raster blocks of the bitmap being printed
NumBlocks == CeilDiv(Len(bitmap), 8)

\* C5: in a print job each frame is sent as a unit: every write carries bytes
\* of one frame only, the chunks of a frame are contiguous and complete before
\* the first chunk of the next frame, which is written only after the frame's
\* delay; in a successful print the writes concatenated are the frames
\* concatenated.
C5_State ==
  op = "print" =>
    /\ \A k \in 1..Len(writes) :
         LET w == writes[k] IN
         /\ w.frame \in 1..Len(frames)
         /\ w.bytes # <<>>
         /\ w.off + Len(w.bytes) <= Len(frames[w.frame])
         /\ w.bytes = SubSeq(frames[w.frame], w.off + 1, w.off + Len(w.bytes))
    /\ \A k \in 1..Len(writes) - 1 :
         LET a == writes[k]
             b == writes[k + 1] IN
         \/ b.frame = a.frame /\ b.off = a.off + Len(a.bytes)
         \/ /\ b.frame = a.frame + 1
            /\ b.off = 0
            /\ a.off + Len(a.bytes) = Len(frames[a.frame])
    /\ pc = "resolved" => WrittenBytes = Flatten(frames)

C5_Step ==
  (op = "print" /\ Len(writes') > Len(writes) /\ writes # <<>>
     /\ Last(writes').frame # Last(writes).frame) =>
    (pc = "frameDelay" /\ Last(writes).status = "ok")

C5_FramesAreUnits == [] C5_State /\ [][C5_Step]_vars

C5_Witness ==
  /\ op = "print" /\ pc = "resolved"
  /\ Len(bitmap) > 8
  /\ Len(writes) > Len(frames)

\* C6 as stated: every vendor init frame (wake, density, label gap, print
\* speed) is written before the justification frame.
C6_Original ==
  op = "print" =>
    \A v \in {WAKE_PRINTER, SET_DENSITY, SET_LABEL_GAP, SET_PRINT_SPEED} :
      \A k \in FrameWrites(v) : \A j \in FrameWrites(<<27, 97, 1>>) : k < j

\* C6 (amended): in a print job the wake, density and label gap frames are
\* written once each, in that order, after the reset frame and before the
\* justification frame; the print speed frame is written once, after the
\* justification frame and before the first raster block and the feed frame.
C6_VendorInitOrder ==
  op = "print" =>
    LET reset == FrameWrites(<<27, 64>>)
        wake == FrameWrites(<<26, 4, 90>>)
        density == FrameWrites(<<26, 9, 12>>)
        gap == FrameWrites(<<26, 7, 1, 0, 0>>)
        justify == FrameWrites(<<27, 97, 1>>)
        speed == FrameWrites(<<31, 17, 2, 4>>)
        feed == FrameWrites(<<27, 100, 3>>)
        Before(A, B) == \A a \in A : \A b \in B : a < b
        Needs(A, B) == A # {} => B # {}
    IN
    /\ \A A \in {wake, density, gap, speed} : Cardinality(A) <= 1
    /\ Before(reset, wake) /\ Before(wake, density) /\ Before(density, gap)
    /\ Before(gap, justify) /\ Before(justify, speed)
    /\ Before(speed, RasterStarts) /\ Before(speed, feed)
    /\ Needs(wake, reset) /\ Needs(density, wake) /\ Needs(gap, density)
    /\ Needs(justify, gap) /\ Needs(speed, justify)
    /\ Needs(RasterStarts, speed) /\ Needs(feed, speed)

C6_Witness ==
  /\ op = "print"
  /\ FrameWrites(<<31, 17, 2, 4>>) # {}
  /\ FrameWrites(<<27, 97, 1>>) # {}
  /\ RasterStarts # {}

\* C7: in a print job the first frame written is the reset frame; the
\* justification frame is written exactly once, before the first raster block;
\* the feed frame is written exactly once, after the last raster block, as the
\* last frame of a successful job.
C7_ResetJustifyFeed ==
  op = "print" =>
    LET justify == FrameWrites(<<27, 97, 1>>)
        feed == FrameWrites(<<27, 100, 3>>)
    IN
    /\ writes # <<>> => (writes[1].off = 0 /\ writes[1].bytes = <<27, 64>>)
    /\ Cardinality(justify) <= 1
    /\ Cardinality(feed) <= 1
    /\ \A r \in RasterStarts : \E j \in justify : j < r
    /\ \A f \in feed : f = Len(writes) /\ Cardinality(RasterStarts) = NumBlocks
    /\ pc = "resolved" => (Cardinality(justify) = 1 /\ Cardinality(feed) = 1)

C7_Witness ==
  /\ op = "print" /\ pc = "resolved"
  /\ Len(bitmap) > 8
  /\ Last(writes).bytes = <<27, 100, 3>>

\* C8: printing a bitmap of N rows emits exactly ceil(N/8) raster blocks;
\* block k (0-based) carries rows 8k .. min(8k+8, N)-1 in row order and its
\* header height is its row count (N mod 8, or 8, for the last block), so that
\* every row is sent once and in order.
C8_RasterBlocks ==
  op = "print" =>
    LET N == Len(bitmap) IN
    /\ Len(frames) <= 6 + NumBlocks + 1
    /\ \A k \in 0..NumBlocks - 1 :
         7 + k <= Len(frames) =>
           LET f == frames[7 + k]
               last == Min(8 * k + 8, N) IN
           /\ Len(f) >= 8
           /\ f[7] + 256 * f[8] = last - 8 * k
           /\ SubSeq(f, 9, Len(f)) = Flatten(SubSeq(bitmap, 8 * k + 1, last))
           /\ k = NumBlocks - 1 =>
                f[7] + 256 * f[8] = (IF N % 8 = 0 THEN 8 ELSE N % 8)
    /\ pc = "resolved" =>
         /\ Len(frames) = 6 + NumBlocks + 1
         /\ Flatten([k \in 1..NumBlocks |-> SubSeq(frames[6 + k], 9, Len(frames[6 + k]))])
              = Flatten(bitmap)
         /\ Cardinality(RasterStarts) = NumBlocks

C8_Witness ==
  /\ op = "print" /\ pc = "resolved"
  /\ Len(bitmap) > 16
  /\ Len(bitmap) % 8 # 0
  /\ Len(frames) = 10

\* C9: every raster block frame begins with the header
\* [0x1D, 0x76, 0x30, 0x00, w_lo, w_hi, h_lo, h_hi] with w_lo + 256 w_hi = 48
\* and h_lo + 256 h_hi = its row count, and is 8 + rows * 48 bytes long.
C9_RasterHeader ==
  op = "print" =>
    \A k \in 7..Len(frames) :
      k <= 6 + NumBlocks =>
        LET f == frames[k] IN
        /\ Len(f) >= 8
        /\ SubSeq(f, 1, 4) = <<29, 118, 48, 0>>
        /\ \A j \in 5..8 : f[j] \in 0..255
        /\ f[5] + 256 * f[6] = 48
        /\ (Len(f) - 8) % 48 = 0
        /\ f[7] + 256 * f[8] = (Len(f) - 8) \div 48
        /\ f[7] + 256 * f[8] >= 1

C9_Witness ==
  /\ op = "print"
  /\ Len(frames) >= 8
  /\ Len(frames[7]) = 8 + 8 * 48
  /\ Len(frames[8]) = 8 + 1 * 48

\* C10: when a chunk write is rejected during a print job, print rejects with
\* that error, the chunk is not retried and no later frame of the job is sent.
C10_State ==
  op = "print" =>
    \A k \in 1..Len(writes) :
      writes[k].status = "rejected" =>
        /\ k = Len(writes)
        /\ pc = "rejected"
        /\ err = "Write failed"
        /\ Len(frames) = writes[k].frame
        /\ \A j \in 1..k - 1 :
             ~(writes[j].frame = writes[k].frame /\ writes[j].off = writes[k].off)

C10_Step ==
  (op = "print" /\ pc = "rejected") =>
    ((writes' = writes /\ frames' = frames /\ pc' = "rejected") \/ op' = "none")

C10_PrintAborts == [] C10_State /\ [][C10_Step]_vars

C10_Witness ==
  /\ op = "print" /\ pc = "rejected" /\ err = "Write failed"
  /\ Len(bitmap) > 8
  /\ Stages[stage] = "raster" /\ startLine = 0
  /\ Last(writes).status = "rejected"

(* ---- C11 ---- *)
\* the errors the step of connect() at position p can fail with
StepErrors(p) ==
  CASE p = "requestDevice" -> {"User cancelled", "GATT server not available"}
    [] p = "gattConnect" -> {"Connection failed"}
    [] p = "getServices" -> {"Service discovery failed", "Could not find printer service"}
    [] p = "probe" -> {"Could not find printer service"}
    [] p = "getWrite" -> {"GATT operation failed"}
    [] OTHER -> {"TypeError"}

C11_State == cpc = "rejected" => (~isConnected /\ cerr # "")

C11_Step ==
  (cpc # "rejected" /\ cpc' = "rejected") =>
    (~isConnected' /\ cerr' \in StepErrors(cpc))

\* C11: when connect() fails at a step before its final success (the device
\* request is rejected, the device has no GATT server, the link cannot be
\* opened, the services cannot be enumerated, no service has the write
\* characteristic), the call rejects with the error of that step, and
\* isConnected is false when it rejects, also on a session that was connected
\* before the call.
C11_ConnectFailure == [] C11_State /\ [][C11_Step]_vars

\* a connect() on a session that holds a write characteristic of an earlier
\* connection has failed at the service search
C11_Witness ==
  /\ cpc = "rejected"
  /\ cerr = "Could not find printer service"
  /\ writeCharacteristic # NoChar

(* ---- C12 ---- *)
\* a step of disconnect(): the session fields are cleared, connect() stays where it is
DisconnectStep ==
  /\ device' = NoDevice /\ writeCharacteristic' = NoChar
  /\ UNCHANGED connectVars

\* a step on which a connect() call in progress fails
ConnectFailStep ==
  /\ cpc \notin {"idle", "resolved", "rejected"}
  /\ cpc' = "rejected"

C12_Step ==
  /\ (~isConnected /\ isConnected') =>
       (cpc \in {"getNotify", "startNotify"} /\ cpc' = "resolved")
  /\ ConnectFailStep => ~isConnected'
  /\ (isConnected /\ ~isConnected') => (DisconnectStep \/ ConnectFailStep)

\* C12: isConnected goes from false to true only on the step that ends a
\* succeeding connect() (the step after its notification attempt, on which the
\* call resolves); every step on which a connect() fails leaves isConnected
\* false; and isConnected goes from true to false only on a disconnect() or on
\* the failing step of a connect().
C12_StateMachine == [][C12_Step]_vars

\* a connect() has just succeeded on the device it requested
C12_Witness ==
  /\ cpc = "resolved"
  /\ isConnected
  /\ device = server
  /\ notify = "started"

(* ---- C13 ---- *)
\* the link of the session's device is open
LinkOpen == device # NoDevice /\ device \in gattConnected

C13_State ==
  LET once == disconnect(Session) IN
  /\ ENABLED Disconnect
  /\ once.isConnected = FALSE
  /\ once.device = NoDevice
  /\ once.writeCharacteristic = NoChar
  /\ once.gattConnected \subseteq gattConnected
  /\ once.gattConnected # gattConnected => LinkOpen
  /\ LinkOpen => once.gattConnected = gattConnected \ {device}
  /\ disconnect(once) = once

C13_Step ==
  Disconnect =>
    /\ ~isConnected' /\ device' = NoDevice /\ writeCharacteristic' = NoChar
    /\ gattConnected # gattConnected' => LinkOpen
    /\ UNCHANGED <<connectVars, jobVars>>

\* C13: in every state disconnect() can be called and does not fail; it leaves
\* isConnected false and device and writeCharacteristic null, whether the
\* session has no device, a device whose link is closed or a device whose link
\* is open; it changes the set of open links only by closing the open link of
\* the session's device; and applying it to its own result changes nothing.
C13_Disconnect == [] C13_State /\ [][C13_Step]_vars

\* disconnect() has run while connect() was enumerating the services: the link
\* that connect() opened is closed and the fields are cleared
C13_Witness ==
  /\ cpc = "getServices"
  /\ device = NoDevice /\ writeCharacteristic = NoChar /\ ~isConnected
  /\ server \notin gattConnected

(* ---- C14 ---- *)
\* the call in flight has seen a write fail on a characteristic whose link is lost
LossObserved ==
  \E k \in 1..Len(writes) :
    /\ writes[k].status = "rejected"
    /\ writes[k].ch \notin gattConnected

\* C14: once the link is lost and a write has failed on it, isConnected is
\* false and device and writeCharacteristic are null, as after disconnect().
\* The code has no handler for the loss and sendData clears nothing when a
\* write fails: the fields keep their values.
C14_SessionDestroyedOnLoss ==
  LossObserved => (~isConnected /\ device = NoDevice /\ writeCharacteristic = NoChar)

(* ---- C15 ---- *)
\* a write of the call in flight has been rejected
WriteFailed(w) == \E k \in 1..Len(w) : w[k].status = "rejected"

C15_Step ==
  (op # "none" /\ WriteFailed(writes')) =>
    /\ pc' = "rejected" /\ err' = "Write failed"
    /\ Len(writes') = Len(writes)
    /\ Pending' = {}
    /\ cpc = "idle" /\ cpc' = "idle"
    /\ gattConnected' \subseteq gattConnected
    /\ device' \in {device, NoDevice}
    /\ writeCharacteristic' \in {writeCharacteristic, NoChar}

\* C15: on the step on which a write of sendData or print is rejected, and on
\* every later step until the caller has taken the result, the call is
\* rejected with the write error, no write is issued or left outstanding, no
\* connect() is started (no device is requested), no link is opened, and the
\* session acquires no device or characteristic.
C15_NoRecovery == [][C15_Step]_vars

\* a print has been rejected by a write on a lost link
C15_Witness ==
  /\ op = "print" /\ pc = "rejected" /\ err = "Write failed"
  /\ LossObserved
  /\ isConnected

(* ---- C16 ---- *)
\* the step that ends the notification attempt of connect()
NotifyStepEnds ==
  /\ cpc \in {"getNotify", "startNotify"}
  /\ cpc' \notin {"getNotify", "startNotify"}

C16_Step ==
  NotifyStepEnds =>
    IF device # NoDevice
    THEN cpc' = "resolved" /\ isConnected' /\ cerr' = ""
    ELSE cpc' = "rejected" /\ ~isConnected' /\ cerr' = "TypeError"

C16_OutcomeIgnored == [][C16_Step]_vars

(* ---- C17 ---- *)
\* a step on which print is called
PrintStarts == op = "none" /\ op' = "print"

C17_Step ==
  (PrintStarts /\ config = NoConfig) =>
    /\ pc' = "rejected"
    /\ err' = "Printer not configured"
    /\ err' # "Printer not connected"
    /\ writes' = <<>> /\ frames' = <<>>

C17_State ==
  (op = "print" /\ err = "Printer not configured") =>
    (pc = "rejected" /\ writes = <<>> /\ frames = <<>>)

InSendData == {j \in Calls : calls[j].pc \in {"write", "pacing"}}

\* writes of one call lie on both sides of a write of another call
Interleaved ==
  \E k1, k2, k3 \in 1..Len(wire) :
    /\ k1 < k2 /\ k2 < k3
    /\ wire[k1].call = wire[k3].call
    /\ wire[k2].call # wire[k1].call

\* C18: at most one call is inside sendData at any time, and the writes that
\* the characteristic receives from two print() calls are never interleaved.
\* The code has no busy flag: a print() called while an earlier one is
\* suspended enters sendData at once, and the two calls take turns writing.
C18_NoOverlappingJobs ==
  /\ Cardinality(InSendData) <= 1
  /\ ~Interleaved

(* ---- C19 ---- *)
\* the print in flight has ended, resolved or rejected
PrintEnded == op = "print" /\ pc \in {"resolved", "rejected"}

\* the last write of the call is the feed frame, and every write succeeded
FeedWritten ==
  /\ writes # <<>>
  /\ Last(writes).bytes = <<ESC, 100, 3>>
  /\ \A k \in 1..Len(writes) : writes[k].status = "ok"

\* C19: when every write settles and every delay elapses, a print() that has
\* been called ends: it either resolves, and then the feed frame was its last
\* write and all its writes succeeded, or it rejects; it does not stay pending.
C19_PrintTerminates ==
  /\ [] ((op = "print" /\ pc = "resolved") => FeedWritten)
  /\ (op = "print") ~> PrintEnded

\* a print of more than one raster block has resolved
C19_Witness ==
  /\ op = "print" /\ pc = "resolved"
  /\ Len(bitmap) > LINES_PER_CHUNK
  /\ FeedWritten

(* ---- C20 ---- *)
C20_State ==
  result.status = "returned" =>
    /\ Len(result.bitmap) = image.height
    /\ \A y \in 1..Len(result.bitmap) :
         /\ Len(result.bitmap[y]) = 48
         /\ Len(result.bitmap[y]) = BYTES_PER_LINE
         /\ \A x \in 1..Len(result.bitmap[y]) : result.bitmap[y][x] \in 0..255

\* C20: whenever canvasToBitmap returns for a canvas of width W and height H,
\* the bitmap has exactly H rows and every row has exactly 48 bytes
\* (BYTES_PER_LINE), each between 0 and 255, for W below, equal to and above
\* 384.
C20_BitmapShape == [] C20_State

\* a canvas wider than the print head has been converted
C20_Witness ==
  /\ result.status = "returned"
  /\ image.width > WIDTH
  /\ image.height = MaxHeight
  /\ image.pat = "black"

\* a canvas narrower than the print head has been converted
C20_WitnessNarrow ==
  /\ result.status = "returned"
  /\ image.width = 9
  /\ Len(result.bitmap) >= 1
  /\ result.bitmap[1][2] = 128

(* ---- C21 ---- *)
\* bit (7 - b) of a byte
BitAt(byte, b) == (byte \div (2 ^ (7 - b))) % 2

\* the luminance 0.299 r + 0.587 g + 0.114 b of a pixel is below 128
LuminanceBelow128(p) == 299 * p[1] + 587 * p[2] + 114 * p[3] < 128000

\* C21: in every bitmap canvasToBitmap returns, bit (7 - b) of byte x of row y
\* is 1 exactly when px = 8x + b is below the canvas width and the luminance
\* 0.299 r + 0.587 g + 0.114 b of pixel (px, y) is below 128.  The code
\* evaluates the luminance in double precision: for mid-grey (128, 128, 128)
\* and 45 other colours of luminance 128 it obtains 127.99999999999999 and
\* sets the bit.
C21_BitRule ==
  result.status = "returned" =>
    \A y \in 0..(image.height - 1), x \in 0..(BYTES_PER_LINE - 1), b \in 0..7 :
      LET px == 8 * x + b IN
      BitAt(result.bitmap[y + 1][x + 1], b) = 1
        <=> (px < image.width /\ LuminanceBelow128(Pixel(image, px, y)))

\* what holds instead: the rule with the luminance as the code computes it
C21_ComputedRule ==
  result.status = "returned" =>
    \A y \in 0..(image.height - 1), x \in 0..(BYTES_PER_LINE - 1), b \in 0..7 :
      LET px == 8 * x + b IN
      BitAt(result.bitmap[y + 1][x + 1], b) = 1
        <=> (px < image.width /\ Dark(Pixel(image, px, y)))

(* ---- C22 ---- *)
\* the r, g, b of pixel (px, y)
RGB(cv, px, y) == SubSeq(Pixel(cv, px, y), 1, 3)

\* two canvases of the same size agree on r, g, b at every column below WIDTH
AgreeRGB(c1, c2) ==
  /\ c1.width = c2.width /\ c1.height = c2.height
  /\ \A y \in 0..(c1.height - 1), px \in 0..(Min(c1.width, WIDTH) - 1) :
       RGB(c1, px, y) = RGB(c2, px, y)

C22_State ==
  result.status = "returned" =>
    \A c2 \in EncodeCanvases :
      (c2.ctx /\ AgreeRGB(image, c2)) => canvasToBitmap(c2) = result.bitmap

C22_Step ==
  result' # result => UNCHANGED <<image, sessionVars, connectVars, jobVars>>

\* C22: the bitmap canvasToBitmap returns for a canvas is the one it returns
\* for every canvas of the same size that agrees with it on r, g, b at all
\* columns below 384, whatever the alpha values and whatever is drawn from
\* column 384 on; and the call changes neither the canvas nor any field of
\* the session.
C22_AlphaIgnored == [] C22_State /\ [][C22_Step]_vars

\* a half-transparent white canvas, black from column 384 on, was converted
\* to an all-zero bitmap
C22_Witness ==
  /\ result.status = "returned"
  /\ image.alpha = 128 /\ image.tail = "black" /\ image.pat = "white"
  /\ image.width = WIDTH + 16
  /\ image.height = MaxHeight
  /\ Len(result.bitmap) = MaxHeight
  /\ \A x \in 1..BYTES_PER_LINE : result.bitmap[1][x] = 0

(* ---- C23 ---- *)
\* the frames of a job without rows
FramesWithoutRows ==
  <<<<ESC, 64>>, WAKE_PRINTER, SET_DENSITY, SET_LABEL_GAP, <<ESC, 97, 1>>,
    SET_PRINT_SPEED, <<ESC, 100, 3>>>>

\* C23: a print of a zero-height canvas never fails in canvasToBitmap: the
\* bitmap is empty, no raster block is written, and a job that resolves has
\* written the reset, vendor, justification and feed frames and nothing else.
\* In a browser getImageData throws an IndexSizeError for a rectangle of
\* height 0, so canvasToBitmap throws and print() rejects before any write.
C23_ZeroHeightPrints ==
  (op = "print" /\ image.ctx /\ image.height = 0) =>
    /\ err \in {"", "Write failed", "TypeError", "Printer not connected"}
    /\ bitmap = <<>>
    /\ RasterStarts = {}
    /\ pc = "resolved" => frames = FramesWithoutRows

(* ---- C24 ---- *)
PRINTER_MODELS == [T02 |-> "T02", HB4057 |-> "HB-4057", UNKNOWN |-> "Unknown"]

CANVAS_CONFIG == [WIDTH |-> 384, HEIGHT |-> 500]

\* a registry whose second profile is a 576-dot print head
PRINTER_CONFIGS_Wide ==
  [m \in {PRINTER_MODELS.T02, PRINTER_MODELS.HB4057} |->
     IF m = PRINTER_MODELS.T02
     THEN [MODEL |-> m, WIDTH |-> 384, BYTES_PER_LINE |-> 48,
           MTU_SIZE |-> 150, LINES_PER_CHUNK |-> 8, INIT_COMMANDS |-> TRUE]
     ELSE [MODEL |-> m, WIDTH |-> 576, BYTES_PER_LINE |-> 48,
           MTU_SIZE |-> 64, LINES_PER_CHUNK |-> 8, INIT_COMMANDS |-> FALSE]]

\* The profile registry.  INIT_COMMANDS is TRUE for a profile that carries
\* vendor initialisation commands and FALSE for null.
PRINTER_CONFIGS ==
  [m \in {PRINTER_MODELS.T02, PRINTER_MODELS.HB4057} |->
     IF m = PRINTER_MODELS.T02
     THEN [MODEL |-> m, WIDTH |-> 384, BYTES_PER_LINE |-> 48,
           MTU_SIZE |-> 150, LINES_PER_CHUNK |-> 8, INIT_COMMANDS |-> TRUE]
     ELSE [MODEL |-> m, WIDTH |-> 384, BYTES_PER_LINE |-> 48,
           MTU_SIZE |-> 64, LINES_PER_CHUNK |-> 8, INIT_COMMANDS |-> FALSE]]

DEFAULT_PRINTER_CONFIG ==
  [MODEL |-> PRINTER_MODELS.UNKNOWN, WIDTH |-> 384, BYTES_PER_LINE |-> 48,
   MTU_SIZE |-> 64, LINES_PER_CHUNK |-> 8, INIT_COMMANDS |-> FALSE]

\* every registered profile and the fallback profile
Profiles == {PRINTER_CONFIGS[m] : m \in DOMAIN PRINTER_CONFIGS} \cup {DEFAULT_PRINTER_CONFIG}

\* WIDTH / 8 of JavaScript is exact division: it equals the integer
\* BYTES_PER_LINE only when WIDTH is a multiple of 8
WidthOver8Is(p) == p.WIDTH % 8 = 0 /\ p.WIDTH \div 8 = p.BYTES_PER_LINE

\* C24: for every registered profile and for the fallback profile WIDTH / 8
\* equals BYTES_PER_LINE and WIDTH equals the canvas width, so that the bitmap
\* row canvasToBitmap makes of a row of a canvas of that width has exactly one
\* bit per canvas pixel: BYTES_PER_LINE bytes, none padded and none cut off.
C24_RegistryWidths ==
  /\ \A p \in Profiles :
       /\ WidthOver8Is(p)
       /\ p.WIDTH = CANVAS_CONFIG.WIDTH
  /\ (result.status = "returned" /\ image.width = CANVAS_CONFIG.WIDTH) =>
       \A p \in Profiles : \A y \in 1..Len(result.bitmap) :
         /\ Len(result.bitmap[y]) = p.BYTES_PER_LINE
         /\ 8 * Len(result.bitmap[y]) = image.width
         /\ p.WIDTH = image.width

\* a canvas of the configured width has been converted into rows
C24_Witness ==
  /\ result.status = "returned"
  /\ image.width = CANVAS_CONFIG.WIDTH
  /\ image.height = MaxHeight
  /\ Len(result.bitmap) = MaxHeight
  /\ Cardinality(Profiles) = 3

(* ---- C25 ---- *)
\* the first enumerated service that exposes the write characteristic, 0 when none does
FirstWithWrite(svcs) ==
  IF \E k \in 1..Len(svcs) : svcs[k]
  THEN CHOOSE k \in 1..Len(svcs) : svcs[k] /\ \A j \in 1..(k - 1) : ~svcs[j]
  ELSE 0

\* positions of connect() at which a service has been selected
ServiceSelected == {"getWrite", "getNotify", "startNotify", "resolved"}

C25_State ==
  /\ cpc = "probe" => (sidx \in 1..Len(services) /\ \A k \in 1..(sidx - 1) : ~services[k])
  /\ cpc \in ServiceSelected => (sidx >= 1 /\ sidx = FirstWithWrite(services))
  /\ (cpc = "rejected" /\ cerr = "Could not find printer service") =>
       FirstWithWrite(services) = 0

C25_Step ==
  \* a rejected lookup: the search goes on with the next service
  /\ (cpc = "probe" /\ cpc' # "probe" /\ cpc' # "getWrite") =>
       (sidx = Len(services) /\ ~services[sidx] /\ cpc' = "rejected"
        /\ cerr' = "Could not find printer service")
  /\ (cpc = "probe" /\ connectVars' # connectVars /\ ~services[sidx] /\ sidx < Len(services)) =>
       (cpc' = "probe" /\ sidx' = sidx + 1 /\ cerr' = cerr /\ UNCHANGED sessionVars)
  \* the services are enumerated once
  /\ (cpc \in {"probe"} \cup ServiceSelected /\ cpc' # "idle") => services' = services
  \* the characteristic of the selected service, and no other, is assigned
  /\ (writeCharacteristic' # writeCharacteristic /\ writeCharacteristic' # NoChar) =>
       (cpc = "getWrite" /\ sidx = FirstWithWrite(services) /\ sidx >= 1
        /\ writeCharacteristic' = server)
  /\ (cpc = "getWrite" /\ cpc' = "getNotify") => writeCharacteristic' = server
  \* no service has it: the call rejects and assigns nothing
  /\ (cpc # "rejected" /\ cpc' = "rejected" /\ cerr' = "Could not find printer service") =>
       (FirstWithWrite(services') = 0 /\ writeCharacteristic' = writeCharacteristic)

\* C25: connect() searches the enumerated services in enumeration order; a
\* rejected lookup of the write characteristic is swallowed and the search
\* goes on with the next service; the first service that has the write
\* characteristic is selected and its characteristic becomes
\* this.writeCharacteristic; when no service has it the call rejects with
\* 'Could not find printer service' and does not assign this.writeCharacteristic.
C25_ServiceSearch == [] C25_State /\ [][C25_Step]_vars

\* the second service was selected after the lookup on the first was rejected
C25_Witness ==
  /\ cpc = "resolved"
  /\ services = <<FALSE, TRUE>>
  /\ sidx = 2
  /\ writeCharacteristic = server

\* no service had the characteristic: the search ended at the last one
C25_WitnessNone ==
  /\ cpc = "rejected"
  /\ cerr = "Could not find printer service"
  /\ Len(services) = MaxServices
  /\ sidx = MaxServices

(* ---- C26 ---- *)
\* C26: in every reachable state, connect(), disconnect() and print() calls
\* interleaved at their suspension points, isConnected = true implies that
\* this.device and this.writeCharacteristic are both non-null.  With at most
\* one connect() in progress this holds (C26_OneConnectAtATime); it fails when
\* connect() is called again while an earlier connect() is suspended.
C26_ConnectedHasHandles ==
  isConnected => (device # NoDevice /\ writeCharacteristic # NoChar)

\* the same statement for the session on which connect() calls do not overlap
C26_OneConnectAtATime ==
  (connects = <<>> /\ isConnected) => (device # NoDevice /\ writeCharacteristic # NoChar)

(* ---- C27 ---- *)
\* no connect() call is in progress
NoConnectInProgress == cpc \in {"idle", "resolved", "rejected"}

\* C27: whenever no connect() call is in progress and isConnected is false,
\* this.writeCharacteristic is null (so that sendData on a session that
\* reports 'not connected' is rejected before any write), also after a
\* connect() that failed on a session that was connected before.
C27_NotConnectedNoCharacteristic ==
  (NoConnectInProgress /\ ~isConnected) => writeCharacteristic = NoChar

\* sendData has written to the printer on a session that reports 'not
\* connected' and has no connect() in progress
C27_WroteWhileNotConnected ==
  /\ cpc = "idle" /\ ~isConnected
  /\ op = "sendData" /\ pc = "resolved"
  /\ Len(writes) > 0
  /\ \A k \in 1..Len(writes) : writes[k].status = "ok"

(* ---- C28 ---- *)
\* at position p of a print() call a chunk of the frame being sent, or a
\* frame of the job, has not been handed to writeValue yet
Unsent(p) ==
  ~ /\ Stages[p.stage] = "feed"
    /\ \/ p.pc = "frameDelay"
       \/ p.pc \in {"write", "pacing"} /\ p.i + MTU_SIZE >= p.len

C28_WitnessComplete ==
  /\ op = "print" /\ pc = "resolved"
  /\ atDisconnect # <<>>
  /\ ~Unsent(atDisconnect[1])

(* ---- C29 ---- *)
\* C29: in every state in which no connect() call is in progress, every GATT
\* link a connect() of the session has opened and that is still open is the
\* link of this.device (so that disconnect() would close it): neither a
\* failed connect() nor a connect() on a connected session leaves an open
\* link the session does not refer to.
C29_NoOrphanedLink ==
  NoConnectInProgress => \A de \in gattConnected : de = device

\* after a second, successful connect() two links are open and disconnect()
\* has closed only the one of the current device
C29_OrphanAfterDisconnect ==
  /\ cpc = "idle"
  /\ device = NoDevice /\ writeCharacteristic = NoChar /\ ~isConnected
  /\ gattConnected # {}

\* a connect() on a connected session has resolved with another device: the
\* link of the earlier device is still open
C29_OrphanOnReconnect ==
  /\ cpc = "resolved" /\ isConnected
  /\ device = "p2" /\ writeCharacteristic = "p2"
  /\ gattConnected = {"p1", "p2"}

(* ---- C30 ---- *)
\* the status modal is open without a close button
ProgressShown == statusModal.open /\ ~statusModal.close

\* the status modal is open with its close button
ClosableShown == statusModal.open /\ statusModal.close

\* the printer operation the handler in flight awaits has settled
OperationSettled ==
  \/ handler = "connectPrinter" /\ cpc \in {"resolved", "rejected"}
  \/ handler \in PrintHandlers /\ pc \in {"resolved", "rejected"}

\* a step on which the handler in flight ends
HandlerEnds == handler # "none" /\ handler' = "none"

\* a step of disconnectPrinter()
DisconnectPrinterStep ==
  ~statusModal.open /\ statusModal' = showStatusWithClose("Disconnected")

C30_State ==
  /\ thrown = ""
  /\ ProgressShown => handler # "none"
  /\ handler # "connectPrinter" => (connectBtn <=> ~isConnected)

C30_Step ==
  /\ HandlerEnds =>
       /\ statusModal'.open /\ statusModal'.close
       /\ thrown' = ""
       /\ OperationSettled
       /\ statusModal'.title =
            IF handler = "connectPrinter"
            THEN (IF cpc = "resolved" THEN "Connected!" ELSE "Connection Failed")
            ELSE (IF pc = "resolved" THEN "Success!" ELSE "Error")
  /\ (HandlerEnds /\ handler = "connectPrinter") => (connectBtn' <=> ~isConnected')
  /\ DisconnectPrinterStep => (~isConnected' /\ connectBtn')

\* C30: the application does not stay on the progress modal.  Every
\* connectPrinter(), printImageOnly() and saveAndPrint() call whose printer
\* operation resolves or rejects ends by showing the status modal with its
\* close button (the success or the error message) and throws nothing to its
\* caller; the progress modal is open only while a handler is in flight; and
\* after connectPrinter() and disconnectPrinter() the connect button is
\* displayed exactly when getConnectionStatus() is false.
C30_NeverStuck ==
  /\ [] C30_State
  /\ [][C30_Step]_vars
  /\ OperationSettled ~> (handler = "none")

\* a print on a connected session has failed: the error modal with its close
\* button is shown and the connect button stays hidden
C30_Witness ==
  /\ handler = "none"
  /\ statusModal = showStatusWithClose("Error")
  /\ isConnected /\ ~connectBtn
  /\ thrown = ""

\* a connect has failed: the error modal is shown with the connect button
C30_WitnessConnectFailed ==
  /\ handler = "none"
  /\ statusModal = showStatusWithClose("Connection Failed")
  /\ ~isConnected /\ connectBtn

====
